---- MODULE Spec2Model ----
(***************************************************************************)
(* State-machine model of examples/nats_camera_server.py: the __main__     *)
(* block, signal_handler and the coroutine async_main (camera open, NATS   *)
(* connect, the capture -> encode -> publish loop with its single          *)
(* reconnect attempt, cadence pacing, and the finally-block cleanup).      *)
(*                                                                         *)
(* Time is counted in milliseconds.  The external collaborators (camera,   *)
(* JPEG encoder, NATS client, the OS delivering signals) are inputs: each  *)
(* call's outcome is chosen with \E from the outcomes the call can have.   *)
(*                                                                         *)
(* A second state machine, RobotSpec, models the DummyRobot class of       *)
(* lerobot/common/robot_devices/robots/dummy_robot.py: the calls           *)
(* connect, disconnect, capture_observation and send_action made on one    *)
(* robot over its cameras.                                                 *)
(***************************************************************************)
EXTENDS Integers, Sequences, FiniteSets, TLC

\* ----------------------------------------------------------------- bounds
\* Number of loop iterations a behaviour may start.
MaxIter == 3
\* Largest measured processing time of one iteration, in ms.
MaxElapsed == 8
\* Number of cameras of the robot (len(self.cameras)).
NumCameras == 2
\* Number of method calls made on the robot in one behaviour.
MaxCalls == 4

\* ------------------------------------------------------ program constants
\* asyncio.sleep(0.1) after a failed capture.
BackoffMs == 100
\* "if sleep_duration < -0.005": overrun tolerance of the diagnostic.
OverrunToleranceMs == 5
\* Exit status of argparse's parser.error().
ArgparseErrorStatus == 2

\* Command lines tried: --fps and --jpeg_quality values.
FpsValues == {-500, 0, 500}
QualityValues == {-1, 0, 100, 101}

VARIABLES
    pc,                 \* position of __main__ / async_main
    args_fps,           \* args.fps
    args_jpeg_quality,  \* args.jpeg_quality
    handlers,           \* signal handlers registered (signal.signal done)
    shutdown_event,     \* the global asyncio.Event
    cap,                \* "None" | "unopened" | "opened" | "released"
    nc,                 \* "None" | "connected" | "disconnected" | "closed"
    frame_duration,     \* 1.0 / args.fps in ms, 0 before it is computed
    iter,               \* iterations started (loop condition passed)
    frame,              \* id of the frame held by this iteration, 0 = None
    resized_frame,      \* id of the frame after the resize step, 0 = none
    buffer,             \* id of the frame the payload encodes, 0 = none
    elapsed_time,       \* time.monotonic() - loop_start_time, ms
    sleep_duration,     \* frame_duration - elapsed_time, ms
    sleep_arg,          \* argument of the latest asyncio.sleep call, ms
    sleep_left,         \* ms left of the cadence sleep in progress
    signalled_left,     \* sleep_left when the event was first set, if that
                        \* happened during a cadence sleep; else 0
    log,                \* records logged by the latest program step
    \* ---- history (observations of the run, read by no action's guard)
    captured,           \* ids of the iterations whose capture gave a frame
    published,          \* payload ids handed to nc.publish, in call order
    closed_errors,      \* publishes that raised ConnectionClosedError
    reconnects,         \* nc.connect(...) calls made from the loop
    reconnect_fails,    \* those that raised
    iter_reconnects,    \* nc.connect(...) calls made in this iteration
    connect_attempts,   \* nats.connect(...) calls at startup
    stretch_fails,      \* failed captures since the last valid-frame iteration
    stretch_backoffs,   \* backoff waits since the last valid-frame iteration
    stretch_pubs,       \* publish calls since the last valid-frame iteration
    ops,                \* release operations attempted, in order
    drain_seen_connected, \* nc.is_connected as read by the finally block
    release_errors,     \* release operations that raised
    exit_reason,        \* why async_main left its try block
    exit_status         \* process exit status, -1 while running

VARIABLES
    is_connected,       \* DummyRobot.is_connected
    method,             \* the robot method being executed, "none" between calls
    camera_i,           \* position of the running "for ... in self.cameras.items()"
    connect_calls,      \* per camera: connect() calls made by the latest robot connect()
    connect_ok,         \* cameras whose connect() returned in the latest camera loop of connect()
    disconnect_calls,   \* per camera: disconnect() calls made by the latest robot disconnect()
    disconnect_errors,  \* cameras whose disconnect() raised in the latest robot disconnect()
    calls               \* history: << method, outcome >> of every finished call

robot == << is_connected, method, camera_i, connect_calls, connect_ok,
            disconnect_calls, disconnect_errors, calls >>

\* self.cameras, in the dict's iteration order.
Cameras == 1..NumCameras

\* The robot as DummyRobot(config) leaves it: not connected (the first
\* connect() of a new robot passes the is_connected test), no call made.
RobotConstructed ==
    /\ is_connected = FALSE
    /\ method = "none"
    /\ camera_i = 0
    /\ connect_calls = [c \in Cameras |-> 0]
    /\ connect_ok = {}
    /\ disconnect_calls = [c \in Cameras |-> 0]
    /\ disconnect_errors = {}
    /\ calls = << >>

server == << pc, args_fps, args_jpeg_quality, handlers, shutdown_event, cap, nc,
           frame_duration, iter, frame, resized_frame, buffer, elapsed_time,
           sleep_duration, sleep_arg, sleep_left, signalled_left, log, captured,
           published, closed_errors, reconnects, reconnect_fails,
           iter_reconnects, connect_attempts, stretch_fails, stretch_backoffs,
             stretch_pubs, ops, drain_seen_connected, release_errors,
             exit_reason, exit_status >>

vars == << server, robot >>

config  == << args_fps, args_jpeg_quality >>
iterloc == << frame, resized_frame, buffer >>
timing  == << elapsed_time, sleep_duration, sleep_arg, sleep_left,
              signalled_left >>
pubhist == << published, closed_errors, reconnects, reconnect_fails,
              iter_reconnects >>
stretch == << stretch_fails, stretch_backoffs, stretch_pubs >>
cleanup == << ops, drain_seen_connected, release_errors >>

\* pc values inside "while not shutdown_event.is_set():"  (state Running)
LoopPcs == { "loop_check", "capture", "backoff", "resize", "encode", "publish",
             "reconnect_check", "reconnect", "pace", "cadence_sleep" }
\* pc values of the except/finally blocks of async_main (state Draining)
DrainPcs == { "except_handler", "finally_nc", "drain", "close", "close_quiet",
              "finally_cap" }
\* async_main has returned (state Terminated)
DonePcs == { "returned", "main_finally", "exited" }

\* 1.0 / args.fps, in ms (all FpsValues but 0 divide 1000).
FrameDuration(fps) ==
    IF fps > 0 THEN 1000 \div fps ELSE 0 - (1000 \div (0 - fps))

\* ---- where control goes after each handled failure ----------------------
\* (each preceded by the variants a slip in that line would give)

\* "choices=range(0, 101)" of --jpeg_quality.
QualityChoices_OffByOne == 0..99
QualityChoices == 0..100

\* "if not cap.isOpened(): logging.error(...); return": on to the finally.
AfterCameraOpenFailure_NoReturn == "nats_connect"
AfterCameraOpenFailure == "finally_nc"

\* The except clauses of nats.connect: "logging.error(...); return".
AfterConnectFailure_Retries == "nats_connect"
AfterConnectFailure == "finally_nc"

\* "await asyncio.sleep(0.1); continue" after "if not ret or frame is None":
AfterCaptureFailure_NoContinue == "resize"
AfterCaptureFailure_NoBackoff == "loop_check"
AfterCaptureFailure == "backoff"

\* "else: logging.warning(JPEG encoding failed ...)": falls through to pacing.
AfterEncodeFailure_Breaks == "finally_nc"
AfterEncodeFailure == "pace"

\* "if not nc.is_connected:" in the ConnectionClosedError handler.
NeedsReconnect_Always(handle) == TRUE
NeedsReconnect(handle) == handle # "connected"

\* "await nc.publish(args.subject, buffer.tobytes())" returned: the
\* iteration goes on to its pacing step.
AfterPublish_CapturesAgain == "capture"
AfterPublish == "pace"

\* "except Exception as e: logging.error(Error publishing ...)": falls
\* through to pacing; the payload is dropped.
AfterPublishError_Retries == "publish"
AfterPublishError == "pace"

\* "logging.info(Reconnected to NATS server.)": falls through to pacing.
AfterReconnectSuccess_Breaks == "finally_nc"
AfterReconnectSuccess == "pace"

\* "except Exception as e_reconnect: ...; break": the loop is left.
AfterReconnectFailure_Continues == "pace"
AfterReconnectFailure == "finally_nc"

\* "except Exception as e: logging.error(Error during NATS drain ...)": the
\* close that follows is still attempted.
AfterDrainError_Propagates == "returned"
AfterDrainError == "close"

\* "if hasattr(camera_instance, 'disconnect')": the cameras that have the
\* method; every camera class implements connect, read and disconnect.
CamerasWithDisconnect == Cameras

\* "except Exception as e: logging.error(Failed to connect camera ...);
\* raise RobotDeviceNotConnectedError(...) from e".
AfterCameraConnectError_Continues == "continue"
AfterCameraConnectError == "raise"

\* "except Exception as e: logging.error(Error disconnecting camera ...)":
\* the loop continues with the other cameras.
AfterCameraDisconnectError == "continue"

\* "self.is_connected = True" at the end of connect.
ConnectedAfterConnect == TRUE

\* "self.is_connected = False" at the end of disconnect.
ConnectedAfterDisconnect_StaysTrue == TRUE
ConnectedAfterDisconnect == FALSE

\* "while not shutdown_event.is_set():".
LoopCondition_IgnoresFlag == TRUE
LoopCondition == ~shutdown_event

\* "sleep_duration = frame_duration - elapsed_time".
SleepDuration_IgnoresElapsed(T, elapsed) == T
SleepDuration(T, elapsed) == T - elapsed

\* "except Exception as e: logging.error(Unexpected error in main loop ...)":
\* the handler ends and the finally block runs.
AfterUnexpectedError_SkipsCleanup == "returned"
AfterUnexpectedError == "finally_nc"

\* "except Exception as e: logging.error(Error closing NATS ...)": the
\* finally block goes on to the frame source.
AfterCloseError_Propagates == "returned"
AfterCloseError == "finally_cap"

\* "except Exception: pass" of the elif branch: likewise.
AfterQuietCloseError == "finally_cap"

\* The finally block's choice on the transport handle:
\* "if nc and nc.is_connected:" drain and close, "elif nc:" close only,
\* otherwise nothing to close.
CleanupBranch_AlwaysDrains(handle) ==
    IF handle = "None" THEN "finally_cap" ELSE "drain"
CleanupBranch_NoElif(handle) ==
    IF handle = "connected" THEN "drain" ELSE "finally_cap"
CleanupBranch(handle) ==
    CASE handle = "connected" -> "drain"
      [] handle = "None"      -> "finally_cap"
      [] OTHER                -> "close_quiet"

Init ==
    /\ pc = "parse_args"
    /\ args_fps \in FpsValues
    /\ args_jpeg_quality \in QualityValues
    /\ handlers = FALSE
    /\ shutdown_event = FALSE
    /\ cap = "None"
    /\ nc = "None"
    /\ frame_duration = 0
    /\ iter = 0
    /\ frame = 0 /\ resized_frame = 0 /\ buffer = 0
    /\ elapsed_time = 0 /\ sleep_duration = 0 /\ sleep_arg = 0 /\ sleep_left = 0
    /\ signalled_left = 0
    /\ log = {}
    /\ captured = {}
    /\ published = << >>
    /\ closed_errors = 0 /\ reconnects = 0 /\ reconnect_fails = 0
    /\ iter_reconnects = 0
    /\ connect_attempts = 0
    /\ stretch_fails = 0 /\ stretch_backoffs = 0 /\ stretch_pubs = 0
    /\ ops = << >>
    /\ drain_seen_connected = FALSE
    /\ release_errors = {}
    /\ exit_reason = "none"
    /\ exit_status = -1
    /\ RobotConstructed

\* ------------------------------------------------------------- __main__

\* parser.parse_args(): --jpeg_quality has choices=range(0, 101); a value
\* outside makes argparse print usage and exit with status 2.  --fps is
\* only type=int.
ParseArgs ==
    /\ pc = "parse_args"
    /\ IF args_jpeg_quality \in QualityChoices
         THEN /\ pc' = "register_signals"
              /\ log' = {}
              /\ UNCHANGED exit_status
         ELSE /\ pc' = "exited"
              /\ log' = {"argparse_error"}
              /\ exit_status' = ArgparseErrorStatus
    /\ UNCHANGED << robot, config, handlers, shutdown_event, cap, nc, frame_duration,
                    iter, iterloc, timing, captured, pubhist, connect_attempts,
                    stretch, cleanup, exit_reason >>

\* signal.signal(SIGINT, ...); signal.signal(SIGTERM, ...); asyncio.run(...)
RegisterSignals ==
    /\ pc = "register_signals"
    /\ handlers' = TRUE
    /\ pc' = "cam_init"
    /\ log' = {"starting"}
    /\ UNCHANGED << robot, config, shutdown_event, cap, nc, frame_duration, iter,
                    iterloc, timing, captured, pubhist, connect_attempts,
                    stretch, cleanup, exit_reason, exit_status >>

\* signal_handler(signum, frame): runs between any two steps of the program
\* once registered; logs and sets the event.
SignalHandler ==
    /\ handlers
    /\ pc # "exited"
    /\ shutdown_event' = TRUE
    /\ log' = log \cup {"shutdown_signal"}
    /\ signalled_left' = IF ~shutdown_event /\ pc = "cadence_sleep"
                            THEN sleep_left ELSE signalled_left
    /\ UNCHANGED << pc, robot, config, handlers, cap, nc, frame_duration, iter,
                    iterloc, elapsed_time, sleep_duration, sleep_arg,
                    sleep_left, captured, pubhist, connect_attempts,
                    stretch, cleanup, exit_reason, exit_status >>

\* The finally clause of __main__: sets the event if it is not set.
MainFinally ==
    /\ pc = "returned"
    /\ shutdown_event' = TRUE
    /\ pc' = "main_finally"
    /\ log' = {"has_shut_down"}
    /\ UNCHANGED << robot, config, handlers, cap, nc, frame_duration, iter, iterloc,
                    timing, captured, pubhist, connect_attempts, stretch,
                    cleanup, exit_reason, exit_status >>

\* The script runs off its end: nothing calls sys.exit, so the interpreter
\* exits with status 0 whatever async_main did.
ProcessExit ==
    /\ pc = "main_finally"
    /\ exit_status' = 0
    /\ pc' = "exited"
    /\ log' = {}
    /\ UNCHANGED << robot, config, handlers, shutdown_event, cap, nc, frame_duration,
                    iter, iterloc, timing, captured, pubhist, connect_attempts,
                    stretch, cleanup, exit_reason >>

\* ------------------------------------------------- async_main: start-up

\* cap = cv2.VideoCapture(index); if not cap.isOpened(): log, return
CamInit ==
    /\ pc = "cam_init"
    /\ \E opened \in BOOLEAN :
         IF opened
           THEN /\ cap' = "opened"
                /\ pc' = "nats_connect"
                /\ log' = {"camera_properties"}
                /\ UNCHANGED exit_reason
           ELSE /\ cap' = "unopened"
                /\ pc' = AfterCameraOpenFailure
                /\ log' = {"camera_open_error"}
                /\ exit_reason' = "camera_open_failed"
    /\ UNCHANGED << robot, config, handlers, shutdown_event, nc, frame_duration, iter,
                    iterloc, timing, captured, pubhist, connect_attempts,
                    stretch, cleanup, exit_status >>

\* nc = await nats.connect(url, timeout=5); the three except clauses all
\* log an error and return.
NatsConnect ==
    /\ pc = "nats_connect"
    /\ connect_attempts' = connect_attempts + 1
    /\ \E ok \in BOOLEAN :
         IF ok
           THEN /\ nc' = "connected"
                /\ pc' = "compute_period"
                /\ log' = {"nats_connected"}
                /\ UNCHANGED exit_reason
           ELSE /\ nc' = nc
                /\ pc' = AfterConnectFailure
                /\ log' = {"nats_connect_error"}
                /\ exit_reason' = "connect_failed"
    /\ UNCHANGED << robot, config, handlers, shutdown_event, cap, frame_duration, iter,
                    iterloc, timing, captured, pubhist, stretch, cleanup,
                    exit_status >>

\* frame_duration = 1.0 / args.fps: ZeroDivisionError when args.fps is 0,
\* caught by "except Exception" of async_main.
ComputePeriod ==
    /\ pc = "compute_period"
    /\ IF args_fps = 0
         THEN /\ pc' = "except_handler"
              /\ log' = {}
              /\ UNCHANGED frame_duration
         ELSE /\ frame_duration' = FrameDuration(args_fps)
              /\ pc' = "loop_check"
              /\ log' = {"starting_loop"}
    /\ UNCHANGED << robot, config, handlers, shutdown_event, cap, nc, iter, iterloc,
                    timing, captured, pubhist, connect_attempts, stretch,
                    cleanup, exit_reason, exit_status >>

\* ---------------------------------------------- async_main: publishing loop

\* "while not shutdown_event.is_set():" and, when the body is entered,
\* "loop_start_time = time.monotonic()".  The locals of the previous
\* iteration are dead from here on and are cleared.
LoopCheck ==
    /\ pc = "loop_check"
    /\ IF ~LoopCondition
         THEN /\ pc' = "finally_nc"
              /\ exit_reason' = "shutdown"
              /\ UNCHANGED << iter, iterloc, elapsed_time, sleep_duration,
                              stretch, iter_reconnects >>
         ELSE /\ iter < MaxIter
              /\ iter' = iter + 1
              /\ pc' = "capture"
              /\ frame' = 0 /\ resized_frame' = 0 /\ buffer' = 0
              /\ elapsed_time' = 0 /\ sleep_duration' = 0
              /\ iter_reconnects' = 0
              /\ IF frame # 0
                   THEN stretch_fails' = 0 /\ stretch_backoffs' = 0
                        /\ stretch_pubs' = 0
                   ELSE UNCHANGED stretch
              /\ UNCHANGED exit_reason
    /\ log' = {}
    /\ UNCHANGED << robot, config, handlers, shutdown_event, cap, nc, frame_duration,
                    sleep_arg, sleep_left, signalled_left, captured, published,
                    closed_errors, reconnects, reconnect_fails,
                    connect_attempts, cleanup, exit_status >>

\* ret, frame = cap.read(); "if not ret or frame is None": warn, back off.
\* The call may also raise (a cv2.error), which leaves the loop.
Capture ==
    /\ pc = "capture"
    /\ \E outcome \in {"frame", "no_frame", "raise"} :
         CASE outcome = "frame" ->
                /\ frame' = iter
                /\ captured' = captured \cup {iter}
                /\ pc' = "resize"
                /\ log' = {}
                /\ UNCHANGED stretch_fails
           [] outcome = "no_frame" ->
                /\ pc' = AfterCaptureFailure
                /\ log' = {"capture_failed_warning"}
                /\ stretch_fails' = stretch_fails + 1
                /\ UNCHANGED << frame, captured >>
           [] outcome = "raise" ->
                /\ pc' = "except_handler"
                /\ log' = {}
                /\ UNCHANGED << frame, captured, stretch_fails >>
    /\ UNCHANGED << robot, config, handlers, shutdown_event, cap, nc, frame_duration,
                    iter, resized_frame, buffer, timing, pubhist,
                    connect_attempts, stretch_backoffs, stretch_pubs, cleanup,
                    exit_reason, exit_status >>

\* await asyncio.sleep(0.1); continue
Backoff ==
    /\ pc = "backoff"
    /\ sleep_arg' = BackoffMs
    /\ stretch_backoffs' = stretch_backoffs + 1
    /\ pc' = "loop_check"
    /\ log' = {}
    /\ UNCHANGED << robot, config, handlers, shutdown_event, cap, nc, frame_duration,
                    iter, iterloc, elapsed_time, sleep_duration, sleep_left,
                    signalled_left, captured, pubhist, connect_attempts,
                    stretch_fails,
                    stretch_pubs, cleanup, exit_reason, exit_status >>

\* "if frame.shape[1] != args.width or ...": cv2.resize, which may raise;
\* otherwise resized_frame = frame.
Resize ==
    /\ pc = "resize"
    /\ \E mismatch \in BOOLEAN, raises \in BOOLEAN :
         IF mismatch /\ raises
           THEN /\ pc' = "except_handler"
                /\ UNCHANGED resized_frame
           ELSE /\ resized_frame' = frame
                /\ pc' = "encode"
    /\ log' = {}
    /\ UNCHANGED << robot, config, handlers, shutdown_event, cap, nc, frame_duration,
                    iter, frame, buffer, timing, captured, pubhist,
                    connect_attempts, stretch, cleanup, exit_reason,
                    exit_status >>

\* is_success, buffer = cv2.imencode(".jpg", resized_frame, encode_param);
\* the else branch of "if is_success:" warns and falls through to pacing.
Encode ==
    /\ pc = "encode"
    /\ \E outcome \in {"ok", "fail", "raise"} :
         CASE outcome = "ok" ->
                /\ buffer' = resized_frame
                /\ pc' = "publish"
                /\ log' = {}
           [] outcome = "fail" ->
                /\ pc' = AfterEncodeFailure
                /\ log' = {"encode_failed_warning"}
                /\ UNCHANGED buffer
           [] outcome = "raise" ->
                /\ pc' = "except_handler"
                /\ log' = {}
                /\ UNCHANGED buffer
    /\ UNCHANGED << robot, config, handlers, shutdown_event, cap, nc, frame_duration,
                    iter, frame, resized_frame, timing, captured, pubhist,
                    connect_attempts, stretch, cleanup, exit_reason,
                    exit_status >>

\* await nc.publish(args.subject, buffer.tobytes()) with its two except
\* clauses: ConnectionClosedError (log, go on to the reconnect logic) and
\* any other Exception (log, fall through to pacing).
Publish ==
    /\ pc = "publish"
    /\ published' = Append(published, buffer)
    /\ stretch_pubs' = stretch_pubs + 1
    /\ \E outcome \in {"ok", "connection_closed", "error"} :
         CASE outcome = "ok" ->
                /\ pc' = AfterPublish
                /\ log' = {"published_debug"}
                /\ UNCHANGED closed_errors
           [] outcome = "connection_closed" ->
                /\ pc' = "reconnect_check"
                /\ log' = {"connection_closed_error"}
                /\ closed_errors' = closed_errors + 1
           [] outcome = "error" ->
                /\ pc' = AfterPublishError
                /\ log' = {"publish_error"}
                /\ UNCHANGED closed_errors
    /\ UNCHANGED << robot, config, handlers, shutdown_event, cap, nc, frame_duration,
                    iter, iterloc, timing, captured, reconnects,
                    reconnect_fails, iter_reconnects, connect_attempts,
                    stretch_fails,
                    stretch_backoffs, cleanup, exit_reason, exit_status >>

\* "if not nc.is_connected:" inside the inner try.
ReconnectCheck ==
    /\ pc = "reconnect_check"
    /\ pc' = IF NeedsReconnect(nc) THEN "reconnect" ELSE "pace"
    /\ log' = {}
    /\ UNCHANGED << robot, config, handlers, shutdown_event, cap, nc, frame_duration,
                    iter, iterloc, timing, captured, pubhist, connect_attempts,
                    stretch, cleanup, exit_reason, exit_status >>

\* await nc.connect(servers=[url], timeout=5): on success log and go on;
\* "except Exception as e_reconnect": log and break.
Reconnect ==
    /\ pc = "reconnect"
    /\ reconnects' = reconnects + 1
    /\ iter_reconnects' = iter_reconnects + 1
    /\ \E ok \in BOOLEAN :
         IF ok
           THEN /\ nc' = "connected"
                /\ pc' = AfterReconnectSuccess
                /\ log' = {"reconnected"}
                /\ UNCHANGED << reconnect_fails, exit_reason >>
           ELSE /\ nc' = nc
                /\ pc' = AfterReconnectFailure
                /\ log' = {"reconnect_failed_error"}
                /\ reconnect_fails' = reconnect_fails + 1
                /\ exit_reason' = "reconnect_failed"
    /\ UNCHANGED << robot, config, handlers, shutdown_event, cap, frame_duration, iter,
                    iterloc, timing, captured, published, closed_errors,
                    connect_attempts, stretch, cleanup, exit_status >>

\* elapsed_time = time.monotonic() - loop_start_time
\* sleep_duration = frame_duration - elapsed_time
\* if sleep_duration > 0: await asyncio.sleep(sleep_duration)
\* else: warn when sleep_duration < -0.005
Pace ==
    /\ pc = "pace"
    /\ \E elapsed \in 0..MaxElapsed :
         /\ elapsed_time' = elapsed
         /\ sleep_duration' = SleepDuration(frame_duration, elapsed)
         /\ IF SleepDuration(frame_duration, elapsed) > 0
              THEN /\ sleep_arg' = SleepDuration(frame_duration, elapsed)
                   /\ sleep_left' = SleepDuration(frame_duration, elapsed)
                   /\ pc' = "cadence_sleep"
                   /\ log' = {}
              ELSE /\ pc' = "loop_check"
                   /\ log' = IF SleepDuration(frame_duration, elapsed)
                                    < 0 - OverrunToleranceMs
                               THEN {"fps_too_high_warning"} ELSE {}
                   /\ UNCHANGED << sleep_arg, sleep_left >>
    /\ UNCHANGED << robot, config, handlers, shutdown_event, cap, nc, frame_duration,
                    iter, iterloc, signalled_left, captured, pubhist,
                    connect_attempts, stretch, cleanup, exit_reason,
                    exit_status >>

\* One millisecond of asyncio.sleep(sleep_duration) passes.  The sleep is a
\* plain timer: nothing but its expiry ends it.
SleepTick ==
    /\ pc = "cadence_sleep"
    /\ sleep_left > 0
    /\ sleep_left' = sleep_left - 1
    /\ UNCHANGED << pc, robot, config, handlers, shutdown_event, cap, nc,
                    frame_duration, iter, iterloc, elapsed_time,
                    sleep_duration, sleep_arg, signalled_left, log, captured, pubhist,
                    connect_attempts, stretch, cleanup, exit_reason,
                    exit_status >>

\* The timer has expired: the coroutine resumes at the loop condition.
SleepWake ==
    /\ pc = "cadence_sleep"
    /\ sleep_left = 0
    /\ pc' = "loop_check"
    /\ log' = {}
    /\ UNCHANGED << robot, config, handlers, shutdown_event, cap, nc, frame_duration,
                    iter, iterloc, timing, captured, pubhist, connect_attempts,
                    stretch, cleanup, exit_reason, exit_status >>

\* ---------------------------------------------------- async_main: cleanup

\* except Exception as e: logging.error(..., exc_info=True)
ExceptHandler ==
    /\ pc = "except_handler"
    /\ exit_reason' = "unexpected"
    /\ pc' = AfterUnexpectedError
    /\ log' = {"unexpected_error"}
    /\ UNCHANGED << robot, config, handlers, shutdown_event, cap, nc, frame_duration,
                    iter, iterloc, timing, captured, pubhist, connect_attempts,
                    stretch, cleanup, exit_status >>

\* finally: "if nc and nc.is_connected:" / "elif nc:"
FinallyNc ==
    /\ pc = "finally_nc"
    /\ drain_seen_connected' = (nc = "connected")
    /\ pc' = CleanupBranch(nc)
    /\ log' = {"shutting_down"}
    /\ UNCHANGED << robot, config, handlers, shutdown_event, cap, nc, frame_duration,
                    iter, iterloc, timing, captured, pubhist, connect_attempts,
                    stretch, ops, release_errors, exit_reason, exit_status >>

\* try: await nc.drain() / except Exception: log the error
Drain ==
    /\ pc = "drain"
    /\ ops' = Append(ops, "drain")
    /\ \E ok \in BOOLEAN :
         /\ log' = IF ok THEN {"drained"} ELSE {"drain_error"}
         /\ release_errors' = IF ok THEN release_errors
                                    ELSE release_errors \cup {"drain"}
         /\ pc' = IF ok THEN "close" ELSE AfterDrainError
    /\ UNCHANGED << robot, config, handlers, shutdown_event, cap, nc, frame_duration,
                    iter, iterloc, timing, captured, pubhist, connect_attempts,
                    stretch, drain_seen_connected, exit_reason, exit_status >>

\* try: await nc.close() / except Exception: log the error
Close ==
    /\ pc = "close"
    /\ ops' = Append(ops, "close")
    /\ \E ok \in BOOLEAN :
         /\ log' = IF ok THEN {"closed"} ELSE {"close_error"}
         /\ nc' = IF ok THEN "closed" ELSE nc
         /\ release_errors' = IF ok THEN release_errors
                                    ELSE release_errors \cup {"close"}
         /\ pc' = IF ok THEN "finally_cap" ELSE AfterCloseError
    /\ UNCHANGED << robot, config, handlers, shutdown_event, cap, frame_duration, iter,
                    iterloc, timing, captured, pubhist, connect_attempts,
                    stretch, drain_seen_connected, exit_reason, exit_status >>

\* elif nc: try: await nc.close() / except Exception: pass
CloseQuiet ==
    /\ pc = "close_quiet"
    /\ ops' = Append(ops, "close")
    /\ \E ok \in BOOLEAN :
         /\ nc' = IF ok THEN "closed" ELSE nc
         /\ release_errors' = IF ok THEN release_errors
                                    ELSE release_errors \cup {"close"}
         /\ pc' = IF ok THEN "finally_cap" ELSE AfterQuietCloseError
    /\ log' = {}
    /\ UNCHANGED << robot, config, handlers, shutdown_event, cap, frame_duration, iter,
                    iterloc, timing, captured, pubhist, connect_attempts,
                    stretch, drain_seen_connected, exit_reason, exit_status >>

\* if cap and cap.isOpened(): cap.release(); then "async_main finished."
\* and the coroutine returns, which ends the life of its locals.
FinallyCap ==
    /\ pc = "finally_cap"
    /\ IF cap = "opened"
         THEN /\ cap' = "released"
              /\ ops' = Append(ops, "release")
              /\ log' = {"camera_released", "async_main_finished"}
         ELSE /\ log' = {"async_main_finished"}
              /\ UNCHANGED << cap, ops >>
    /\ pc' = "returned"
    /\ frame' = 0 /\ resized_frame' = 0 /\ buffer' = 0
    /\ elapsed_time' = 0 /\ sleep_duration' = 0 /\ frame_duration' = 0
    /\ UNCHANGED << robot, config, handlers, shutdown_event, nc, iter, sleep_arg,
                    sleep_left, signalled_left, captured, pubhist,
                    connect_attempts, stretch, drain_seen_connected,
                    release_errors, exit_reason, exit_status >>

\* ------------------------------------------------------------ environment

\* The NATS client loses its connection on its own.
TransportDrop ==
    /\ nc = "connected"
    /\ pc \in LoopPcs \cup DrainPcs
    /\ nc' = "disconnected"
    /\ UNCHANGED << pc, robot, config, handlers, shutdown_event, cap, frame_duration,
                    iter, iterloc, timing, log, captured, pubhist,
                    connect_attempts, stretch, cleanup, exit_reason,
                    exit_status >>

\* The NATS client re-establishes the connection on its own ("Check if
\* already reconnected by client").
TransportRestore ==
    /\ nc = "disconnected"
    /\ pc \in LoopPcs \cup DrainPcs
    /\ nc' = "connected"
    /\ UNCHANGED << pc, robot, config, handlers, shutdown_event, cap, frame_duration,
                    iter, iterloc, timing, log, captured, pubhist,
                    connect_attempts, stretch, cleanup, exit_reason,
                    exit_status >>

Next ==
    \/ ParseArgs \/ RegisterSignals \/ SignalHandler \/ MainFinally
    \/ ProcessExit
    \/ CamInit \/ NatsConnect \/ ComputePeriod
    \/ LoopCheck \/ Capture \/ Backoff \/ Resize \/ Encode \/ Publish
    \/ ReconnectCheck \/ Reconnect \/ Pace \/ SleepTick \/ SleepWake
    \/ ExceptHandler \/ FinallyNc \/ Drain \/ Close \/ CloseQuiet \/ FinallyCap
    \/ TransportDrop \/ TransportRestore

Spec == Init /\ [][Next]_vars

\* The steps of the program itself: everything but the arrival of a signal
\* and the link going down or coming back, which are the environment's.
ProgramStep ==
    \/ ParseArgs \/ RegisterSignals \/ MainFinally \/ ProcessExit
    \/ CamInit \/ NatsConnect \/ ComputePeriod
    \/ LoopCheck \/ Capture \/ Backoff \/ Resize \/ Encode \/ Publish
    \/ ReconnectCheck \/ Reconnect \/ Pace \/ SleepTick \/ SleepWake
    \/ ExceptHandler \/ FinallyNc \/ Drain \/ Close \/ CloseQuiet \/ FinallyCap

\* Every call and every await returns and the interpreter keeps running the
\* single task: a program step that stays possible is eventually taken.
FairSpec == Spec /\ WF_vars(ProgramStep)

\* ------------------------------------------------------------- DummyRobot
\* connect(): the is_connected test and the start of the camera loop.
ConnectCall ==
    /\ method = "none"
    /\ Len(calls) < MaxCalls
    /\ connect_calls' = [c \in Cameras |-> 0]
    /\ IF is_connected
         THEN /\ calls' = Append(calls,
                      << "connect", "RobotDeviceAlreadyConnectedError" >>)
              /\ UNCHANGED << method, camera_i, connect_ok >>
         ELSE /\ method' = "connect"
              /\ camera_i' = 1
              /\ connect_ok' = {}
              /\ UNCHANGED calls
    /\ UNCHANGED << is_connected, disconnect_calls, disconnect_errors, server >>

\* connect(): one pass of the camera loop, camera_instance.connect() either
\* returning or raising.
ConnectCamera ==
    /\ method = "connect"
    /\ camera_i \in Cameras
    /\ connect_calls' = [connect_calls EXCEPT ![camera_i] = @ + 1]
    /\ \E ok \in BOOLEAN :
         /\ connect_ok' = IF ok THEN connect_ok \cup {camera_i} ELSE connect_ok
         /\ IF ok \/ AfterCameraConnectError = "continue"
              THEN /\ camera_i' = camera_i + 1
                   /\ UNCHANGED << method, calls >>
              ELSE /\ method' = "none"
                   /\ camera_i' = 0
                   /\ calls' = Append(calls,
                           << "connect", "RobotDeviceNotConnectedError" >>)
    /\ UNCHANGED << is_connected, disconnect_calls, disconnect_errors, server >>

\* connect(): after the loop, is_connected is set and the call returns.
ConnectReturn ==
    /\ method = "connect"
    /\ camera_i = NumCameras + 1
    /\ is_connected' = ConnectedAfterConnect
    /\ method' = "none"
    /\ camera_i' = 0
    /\ calls' = Append(calls, << "connect", "ok" >>)
    /\ UNCHANGED << connect_calls, connect_ok, disconnect_calls,
                    disconnect_errors, server >>

\* disconnect(): no is_connected test; the camera loop starts.
DisconnectCall ==
    /\ method = "none"
    /\ Len(calls) < MaxCalls
    /\ method' = "disconnect"
    /\ camera_i' = 1
    /\ disconnect_calls' = [c \in Cameras |-> 0]
    /\ disconnect_errors' = {}
    /\ UNCHANGED << is_connected, connect_calls, connect_ok, calls, server >>

\* disconnect(): one pass of the camera loop; a camera whose disconnect()
\* raises is logged and the loop goes on.
DisconnectCamera ==
    /\ method = "disconnect"
    /\ camera_i \in Cameras
    /\ IF camera_i \in CamerasWithDisconnect
         THEN /\ disconnect_calls' =
                     [disconnect_calls EXCEPT ![camera_i] = @ + 1]
              /\ \E ok \in BOOLEAN :
                   disconnect_errors' = IF ok THEN disconnect_errors
                                        ELSE disconnect_errors \cup {camera_i}
         ELSE UNCHANGED << disconnect_calls, disconnect_errors >>
    /\ camera_i' = IF AfterCameraDisconnectError = "continue"
                     THEN camera_i + 1 ELSE NumCameras + 1
    /\ UNCHANGED << is_connected, method, connect_calls, connect_ok, calls,
                    server >>

\* disconnect(): after the loop, is_connected is cleared and the call returns.
DisconnectReturn ==
    /\ method = "disconnect"
    /\ camera_i = NumCameras + 1
    /\ is_connected' = ConnectedAfterDisconnect
    /\ method' = "none"
    /\ camera_i' = 0
    /\ calls' = Append(calls, << "disconnect", "ok" >>)
    /\ UNCHANGED << connect_calls, connect_ok, disconnect_calls,
                    disconnect_errors, server >>

\* capture_observation(): refused when not connected; otherwise every
\* camera is read, and a read that raises or returns None ends the call
\* with RuntimeError.
CaptureObservation ==
    /\ method = "none"
    /\ Len(calls) < MaxCalls
    /\ IF ~is_connected
         THEN calls' = Append(calls,
                  << "capture_observation", "RobotDeviceNotConnectedError" >>)
         ELSE \E failed \in Cameras \cup {0} :
                calls' = Append(calls,
                    << "capture_observation",
                       IF failed = 0 THEN "ok" ELSE "RuntimeError" >>)
    /\ UNCHANGED << is_connected, method, camera_i, connect_calls, connect_ok,
                    disconnect_calls, disconnect_errors, server >>

\* send_action(): refused when not connected; otherwise a no-op.
SendAction ==
    /\ method = "none"
    /\ Len(calls) < MaxCalls
    /\ calls' = Append(calls,
            << "send_action",
               IF is_connected THEN "ok" ELSE "RobotDeviceNotConnectedError" >>)
    /\ UNCHANGED << is_connected, method, camera_i, connect_calls, connect_ok,
                    disconnect_calls, disconnect_errors, server >>

\* One robot just constructed; the camera server is not part of this
\* machine and its variables stay as they start.
RobotInit ==
    /\ Init
    /\ args_fps = 500
    /\ args_jpeg_quality = 100

RobotNext ==
    \/ ConnectCall \/ ConnectCamera \/ ConnectReturn
    \/ DisconnectCall \/ DisconnectCamera \/ DisconnectReturn
    \/ CaptureObservation \/ SendAction

RobotSpec == RobotInit /\ [][RobotNext]_vars

\* ================================================================ claims

\* The release operations async_main must have attempted by the time it
\* returns, given what its finally block read from nc.is_connected.
ReleaseSequence ==
    IF drain_seen_connected THEN << "drain", "close", "release" >>
                            ELSE << "close", "release" >>

\* The set of values of a sequence.
Range(q) == { q[i] : i \in DOMAIN q }

\* ------------------------------------------------------------------- C1
\* C1 as stated: when the loop ended because the shutdown flag was observed,
\* async_main has drained the transport, then closed it, then released the
\* frame source.
C1_AsStated ==
    (pc \in DonePcs /\ exit_reason = "shutdown")
        => ops = << "drain", "close", "release" >>

\* C1, amended: while the shutdown flag is set no new iteration (capture
\* request) is started, the loop condition evaluated with the flag set leads
\* only to the cleanup, and a loop ended by the flag has closed the transport
\* (after draining it if and only if it reported connected when the cleanup
\* began) and then released the frame source, whether or not the drain or
\* the close raised.
C1_ShutdownStopsAndReleases ==
    /\ [](((pc \in DonePcs /\ exit_reason = "shutdown")
             => ops = ReleaseSequence)
          /\ (exit_reason = "shutdown" => pc \in DrainPcs \cup DonePcs))
    /\ [][ /\ (shutdown_event => iter' = iter)
           /\ ((shutdown_event /\ pc = "loop_check" /\ pc' # pc)
                 => (pc' = "finally_nc" /\ exit_reason' = "shutdown")) ]_vars

\* C1 witness: a loop that ran, was ended by the flag, and whose drain raised,
\* has still closed the transport and released the frame source, in order.
C1_Witness ==
    /\ pc = "returned"
    /\ exit_reason = "shutdown"
    /\ iter >= 1
    /\ "drain" \in release_errors
    /\ ops = << "drain", "close", "release" >>

\* ------------------------------------------------------------------- C2
\* C2: on every exit path of async_main taken with the frame source opened
\* and the transport handle acquired, the transport was closed (drained first
\* exactly when it reported connected) and after that the frame source was
\* released; the exit paths are the three ways out of the loop and the
\* error raised before the loop.
C2_EveryExitReleasesInOrder ==
    (pc \in DonePcs /\ connect_attempts = 1 /\ nc # "None")
        => /\ ops = ReleaseSequence
           /\ cap = "released"
           /\ exit_reason \in {"shutdown", "reconnect_failed", "unexpected"}

\* C2 witness: an unexpected exception in the iteration body, with the
\* transport connected: drain, close, release.
C2_Witness ==
    /\ pc = "returned"
    /\ exit_reason = "unexpected"
    /\ iter >= 1
    /\ ops = << "drain", "close", "release" >>

\* ------------------------------------------------------------------- C3
\* C3: a publish that raised connection-closed on a transport that reports
\* disconnected and whose reconnect fails ends the loop after exactly one
\* reconnect attempt for that publish: the failed attempt is the only one of
\* its iteration, no second failure ever happens, the loop is left at once,
\* and by the time async_main returns the transport was closed and the
\* frame source released.
C3_FailedReconnectEndsLoopOnce ==
    /\ reconnect_fails <= 1
    /\ iter_reconnects <= 1
    /\ (reconnect_fails = 1
          => /\ exit_reason = "reconnect_failed"
             /\ iter_reconnects = 1
             /\ closed_errors >= 1
             /\ pc \in DrainPcs \cup DonePcs)
    /\ (exit_reason = "reconnect_failed" => reconnect_fails = 1)
    /\ ((pc \in DonePcs /\ exit_reason = "reconnect_failed")
          => (ops = ReleaseSequence /\ cap = "released"))

\* C3 witness: the first publish met a closed connection, the one reconnect
\* attempt failed, the transport (still disconnected) was closed and the
\* frame source released.
C3_Witness ==
    /\ pc = "returned"
    /\ exit_reason = "reconnect_failed"
    /\ reconnects = 1
    /\ published = << 1 >>
    /\ ops = << "close", "release" >>

\* ------------------------------------------------------------------- C4
\* C4: a connection-closed publish failure is logged before the connectivity
\* flag is queried; when the flag reports disconnected one reconnect attempt
\* is made (the only one of the iteration); when it succeeds the loop is
\* still Running, at the pacing step of the same iteration, with no exit
\* reason recorded, so later frames go on being published.
C4_ReconnectSuccessKeepsRunning ==
    /\ (pc = "reconnect_check" => "connection_closed_error" \in log)
    /\ (pc = "reconnect" => iter_reconnects = 0)
    /\ iter_reconnects <= 1
    /\ ("reconnected" \in log
          => /\ pc = "pace"
             /\ iter_reconnects = 1
             /\ exit_reason = "none"
             /\ reconnect_fails = 0)

\* C4 witness: one disconnect, one successful reconnect, and the payload of
\* the next frame has just been published.
C4_Witness ==
    /\ closed_errors = 1
    /\ reconnects = 1
    /\ reconnect_fails = 0
    /\ published = << 1, 2 >>
    /\ "published_debug" \in log

\* ------------------------------------------------------------------- C5
\* C5: every payload gets at most one publish attempt, and each publish
\* attempt uses the payload of a frame captured after the one of the previous
\* attempt: the ids handed to publish are strictly increasing, and the
\* payload about to be published is that of the current iteration's frame.
C5_OnePublishAttemptPerPayload ==
    /\ \A i, j \in DOMAIN published : i < j => published[i] < published[j]
    /\ (pc = "publish" => (buffer = iter /\ buffer \notin Range(published)))
    /\ Len(published) <= iter

\* C5 witness: the first payload's publish failed with a closed connection
\* and the next publish attempt was made with the second frame's payload.
C5_Witness ==
    /\ published = << 1, 2 >>
    /\ closed_errors = 1
    /\ reconnects = 1

\* ------------------------------------------------------------------- C6
\* C6: publish is never called in an iteration whose capture failed: every
\* payload handed to publish comes from an iteration whose capture returned
\* a frame, an iteration without a frame is only ever at the capture, the
\* backoff or the loop condition; and a failed capture leaves the loop in
\* Running: it leads to the backoff and the loop is left after it only by
\* the shutdown flag or an exception.
C6_NoPublishWithoutFrame ==
    /\ Range(published) \subseteq captured
    /\ (pc \in {"resize", "encode", "publish", "reconnect_check", "reconnect",
                "pace", "cadence_sleep"} => (frame = iter /\ iter \in captured))
    /\ ("capture_failed_warning" \in log => pc = "backoff")
    /\ (pc = "backoff" => (frame = 0 /\ exit_reason = "none"))
    /\ ((pc \in DrainPcs /\ stretch_fails > 0 /\ frame = 0
            /\ exit_reason # "none")
          => exit_reason \in {"shutdown", "unexpected"})

\* C6 witness: valid, invalid, valid: three iterations, two payloads, still
\* Running.
C6_Witness ==
    /\ pc = "pace"
    /\ iter = 3
    /\ captured = {1, 3}
    /\ published = << 1, 3 >>

\* ------------------------------------------------------------------- C7
\* C7 as stated: when the iteration that follows k consecutive capture
\* failures with a valid frame reaches its pacing step, exactly k backoff
\* waits and exactly one publish have happened in that stretch.
C7_AsStated ==
    (pc = "pace" /\ frame # 0 /\ stretch_fails >= 1)
        => (stretch_backoffs = stretch_fails /\ stretch_pubs = 1)

\* C7, amended: each failed capture is followed by exactly one backoff wait
\* of BackoffMs (whatever the cadence), with no publish and no cadence
\* pacing in that iteration; so when the valid frame after k consecutive
\* failures reaches the pacing step there were exactly k backoff waits and
\* at most one publish call in the stretch: exactly one if the frame was
\* encoded, none if the encoding failed.
C7_BackoffPerFailure ==
    /\ (pc = "backoff" => (stretch_backoffs = stretch_fails - 1 /\ frame = 0))
    /\ (pc # "backoff" => stretch_backoffs = stretch_fails)
    /\ ((pc = "loop_check" /\ frame = 0 /\ stretch_fails > 0)
          => (sleep_arg = BackoffMs /\ stretch_pubs = 0
              /\ elapsed_time = 0 /\ sleep_duration = 0))
    /\ (pc \in {"pace", "cadence_sleep"} => frame # 0)
    /\ ((pc \in {"pace", "cadence_sleep"} /\ buffer # 0) => stretch_pubs = 1)
    /\ ((pc \in {"pace", "cadence_sleep"} /\ buffer = 0) => stretch_pubs = 0)

\* C7 witness: two failed captures, then a valid frame whose payload was
\* published: two backoff waits, one publish.
C7_Witness ==
    /\ pc = "pace"
    /\ iter = 3
    /\ captured = {3}
    /\ stretch_fails = 2
    /\ stretch_backoffs = 2
    /\ stretch_pubs = 1
    /\ sleep_arg = BackoffMs

\* ------------------------------------------------------------------- C8
\* C8: every step that takes the loop out of Running is one of: the loop
\* condition read with the shutdown flag set, a reconnect attempt that
\* failed, or an exception raised by the capture, the resize or the encode
\* call; and an encode failure or a publish failure that is not a disconnect
\* takes the loop to the pacing step of the same iteration.
C8_ExitsFromRunning ==
    [][ /\ ((pc \in LoopPcs /\ pc' \notin LoopPcs)
              => \/ /\ pc = "loop_check" /\ shutdown_event
                    /\ pc' = "finally_nc" /\ exit_reason' = "shutdown"
                 \/ /\ pc = "reconnect"
                    /\ reconnect_fails' = reconnect_fails + 1
                    /\ pc' = "finally_nc" /\ exit_reason' = "reconnect_failed"
                 \/ /\ pc \in {"capture", "resize", "encode"}
                    /\ pc' = "except_handler")
        /\ ((pc = "encode" /\ "encode_failed_warning" \in log') => pc' = "pace")
        /\ ((pc = "publish" /\ "publish_error" \in log') => pc' = "pace")
        /\ ((pc = "encode" /\ pc' \notin {"encode", "except_handler", "publish"})
              => "encode_failed_warning" \in log')
      ]_vars

\* C8 witness: the first iteration's encoding failed, the second iteration's
\* publish failed without a disconnect, and the loop is still Running.
C8_Witness ==
    /\ pc = "pace"
    /\ captured = {1, 2}
    /\ published = << 2 >>
    /\ "publish_error" \in log
    /\ exit_reason = "none"

\* ------------------------------------------------------------------- C9
\* C9 as stated: a cadence sleep during which the shutdown flag was set is
\* not sat out: the loop is never found with the sleep's timer expired after
\* the flag was set while time was still left on it.
C9_AsStated ==
    ~(pc = "cadence_sleep" /\ sleep_left = 0 /\ signalled_left > 0)

\* ------------------------------------------------------------------ C10
\* C10 as stated: the process exit status is 0 after a shutdown by signal
\* and non-zero after a frame source that would not open, a transport that
\* could not be reached at startup, or a failed reconnect.
C10_AsStated ==
    pc = "exited"
        => /\ (exit_reason = "shutdown" => exit_status = 0)
           /\ (exit_reason \in {"camera_open_failed", "connect_failed",
                                "reconnect_failed"} => exit_status # 0)


\* ------------------------------------------------------------------ C11
\* C11: the start-up failures end async_main before the loop and are not
\* retried.  After a frame source that would not open: no transport connect
\* was attempted, no iteration, capture or publish happened, and there is
\* nothing to release.  After a failed initial connect: exactly one connect
\* attempt was made, no iteration, capture or publish happened, and by the
\* time async_main returns the opened frame source was released.
C11_StartupFailuresAbort ==
    /\ connect_attempts <= 1
    /\ (exit_reason = "camera_open_failed"
          => /\ connect_attempts = 0
             /\ nc = "None"
             /\ cap = "unopened"
             /\ iter = 0 /\ captured = {} /\ published = << >>
             /\ ops = << >>
             /\ pc \in DrainPcs \cup DonePcs)
    /\ (exit_reason = "connect_failed"
          => /\ connect_attempts = 1
             /\ nc = "None"
             /\ iter = 0 /\ captured = {} /\ published = << >>
             /\ pc \in DrainPcs \cup DonePcs
             /\ (pc \in DonePcs => (cap = "released" /\ ops = << "release" >>)))

\* C11 witness: the initial connect failed and async_main has returned
\* after releasing the frame source, its only release operation.
C11_Witness ==
    /\ pc = "returned"
    /\ exit_reason = "connect_failed"
    /\ connect_attempts = 1
    /\ cap = "released"
    /\ ops = << "release" >>

\* ------------------------------------------------------------------ C12
\* C12: a --jpeg_quality outside 0..100 is rejected by the argument parser:
\* the process never gets past parsing (no signal handler, frame source,
\* transport or iteration) and exits with argparse's error status; 0 and 100
\* are accepted, so the process gets past parsing with them.
C12_QualityRangeChecked ==
    /\ (args_jpeg_quality \notin 0..100
          => /\ pc \in {"parse_args", "exited"}
             /\ ~handlers
             /\ cap = "None" /\ nc = "None"
             /\ connect_attempts = 0 /\ iter = 0
             /\ (pc = "exited" => exit_status = ArgparseErrorStatus))
    /\ (args_jpeg_quality \in {0, 100}
          => /\ "argparse_error" \notin log
             /\ exit_status # ArgparseErrorStatus)

\* C12 witness: quality 101 was rejected before anything was acquired.
C12_Witness ==
    /\ args_jpeg_quality = 101
    /\ pc = "exited"
    /\ exit_status = ArgparseErrorStatus
    /\ cap = "None" /\ nc = "None"


\* ------------------------------------------------------------------ C13
\* C13 as stated: whenever the loop runs the cadence is positive: no
\* position inside the loop is ever occupied with a --fps that is zero or
\* negative, or with a frame period that is not positive.
C13_AsStated ==
    pc \in LoopPcs => (args_fps > 0 /\ frame_duration > 0)


\* ------------------------------------------------------------------ C14
\* C14: in the cleanup every release step is attempted whatever the earlier
\* ones did: right after a drain that raised the close is next, right after a
\* close that raised the frame-source release is next, and once async_main
\* has returned after a drain or close that raised, the close was attempted
\* and the frame source was released, last.
C14_ReleaseStepsAllAttempted ==
    /\ ("drain_error" \in log => pc = "close")
    /\ ("close_error" \in log => pc = "finally_cap")
    /\ (("close" \in release_errors /\ pc \in DrainPcs) => pc = "finally_cap")
    /\ ((pc \in DonePcs /\ release_errors # {})
          => /\ "close" \in Range(ops)
             /\ ops[Len(ops)] = "release"
             /\ cap = "released")
    /\ ((pc \in DonePcs /\ "drain" \in release_errors)
          => ops = << "drain", "close", "release" >>)

\* C14 witness: the drain raised and the close raised, and the frame source
\* was released all the same.
C14_Witness ==
    /\ pc = "returned"
    /\ release_errors = {"drain", "close"}
    /\ ops = << "drain", "close", "release" >>
    /\ cap = "released"


\* ------------------------------------------------------------------ C15
\* C15, as stated: every drain or close step that raised during the cleanup
\* was logged by the step that raised, whether the transport reported
\* connected or disconnected when the cleanup began, and the cleanup went on
\* inside async_main.
C15_AsStated ==
    /\ ((pc = "close" /\ "drain" \in release_errors) => "drain_error" \in log)
    /\ ((pc = "finally_cap" /\ "close" \in release_errors)
          => "close_error" \in log)


\* ------------------------------------------------------------------ C16
\* C16: an exception raised in the try body (capture, resample, encode) is
\* caught inside async_main: it is logged, the finally block runs next, and
\* by the time async_main returns the transport was drained and closed (or
\* only closed when it reported disconnected) and then the frame source was
\* released, as on a deliberate shutdown; the process then exits normally.
C16_UnexpectedErrorIsContained ==
    /\ ((exit_reason = "unexpected" /\ iter >= 1)
          => /\ pc \in (DrainPcs \ {"except_handler"}) \cup DonePcs
             /\ (pc = "finally_nc" => "unexpected_error" \in log)
             /\ (pc \in DonePcs
                   => /\ ops = ReleaseSequence
                      /\ ops \in { << "drain", "close", "release" >>,
                                   << "close", "release" >> }
                      /\ cap = "released"
                      /\ exit_status # ArgparseErrorStatus))
    /\ (pc = "except_handler" => pc \notin DonePcs /\ ops = << >>)

\* C16 witness: the encoder raised on a captured frame, nothing was
\* published, and async_main returned after drain, close, release.
C16_Witness ==
    /\ pc = "returned"
    /\ exit_reason = "unexpected"
    /\ captured # {}
    /\ published = << >>
    /\ ops = << "drain", "close", "release" >>
    /\ cap = "released"


\* ------------------------------------------------------------------ C17
\* C17, as stated: the shutdown flag starts false, is never cleared, and
\* every step that sets it is a signal delivery, which leaves the program
\* where it was and changes nothing but the flag (and the log record it
\* writes).
C17_AsStated ==
    [][ /\ (shutdown_event => shutdown_event')
        /\ ((~shutdown_event /\ shutdown_event')
              => /\ "shutdown_signal" \in log'
                 /\ UNCHANGED << pc, config, handlers, cap, nc, frame_duration,
                                 iter, iterloc, captured, pubhist,
                                 connect_attempts, stretch, cleanup,
                                 exit_reason, exit_status >>) ]_vars


\* ------------------------------------------------------------------ C18
\* C18: at the pacing step, with T = 1/fps and elapsed the time since the
\* iteration started: when elapsed < T the loop asks to sleep exactly
\* T - elapsed and writes no overrun warning; when elapsed >= T it goes
\* straight to the next loop check without sleeping, and the overrun warning
\* is written only when elapsed exceeds T by more than the tolerance. A
\* cadence sleep ends only when the whole requested time has passed.
C18_PacingSleepsTheRemainder ==
    [][ /\ ((pc = "pace" /\ pc' # "pace")
              => /\ frame_duration = FrameDuration(args_fps)
                 /\ (elapsed_time' < frame_duration
                       => /\ pc' = "cadence_sleep"
                          /\ sleep_arg' = frame_duration - elapsed_time'
                          /\ sleep_left' = sleep_arg'
                          /\ "fps_too_high_warning" \notin log')
                 /\ (elapsed_time' >= frame_duration
                       => /\ pc' = "loop_check"
                          /\ UNCHANGED << sleep_arg, sleep_left >>
                          /\ ("fps_too_high_warning" \in log'
                                => elapsed_time' - frame_duration
                                     > OverrunToleranceMs)))
        /\ ((pc = "cadence_sleep" /\ pc' # "cadence_sleep")
              => sleep_left = 0 /\ pc' = "loop_check") ]_vars

\* C18 witness: the iteration took 1 ms of a 2 ms period and the loop is
\* asleep for the remaining 1 ms.
C18_Witness ==
    /\ pc = "cadence_sleep"
    /\ frame_duration = 2
    /\ elapsed_time = 1
    /\ sleep_arg = 1
    /\ sleep_left = 1


\* ------------------------------------------------------------------ C19
\* C19: when every call returns, a set shutdown flag leads to async_main
\* having returned; and once async_main has returned no transport or
\* frame-source operation happens any more: no capture, publish, connect,
\* reconnect, drain, close or release, and both handles stay as they are.
C19_ShutdownTerminates ==
    /\ (shutdown_event ~> pc \in DonePcs)
    /\ [][ (pc \in DonePcs)
             => (pc' \in DonePcs
                 /\ UNCHANGED << cap, nc, iter, captured, pubhist,
                                 connect_attempts, cleanup >>) ]_vars

\* C19 witness: a signal arrived while frames were being served and the
\* process has exited with the frame source released.
C19_Witness ==
    /\ pc = "exited"
    /\ shutdown_event
    /\ exit_reason = "shutdown"
    /\ captured # {}
    /\ cap = "released"


\* ------------------------------------------------------------------ C20
\* C20: when connect() on a robot that was not connected has returned
\* normally, every camera's connect was called exactly once by it and
\* is_connected is True; when a disconnect() that follows has returned,
\* every camera's disconnect was called exactly once by it and is_connected
\* is False.
C20_ConnectDisconnectOncePerCamera ==
    /\ ((method = "none" /\ Len(calls) >= 1
           /\ calls[Len(calls)] = << "connect", "ok" >>)
          => /\ is_connected
             /\ \A c \in Cameras : connect_calls[c] = 1)
    /\ ((method = "none" /\ Len(calls) >= 2
           /\ calls[Len(calls) - 1] = << "connect", "ok" >>
           /\ calls[Len(calls)][1] = "disconnect")
          => /\ ~is_connected
             /\ calls[Len(calls)][2] = "ok"
             /\ \A c \in Cameras : disconnect_calls[c] = 1
             /\ \A c \in Cameras : connect_calls[c] = 1)

\* C20 witness: connect() then disconnect(), both returned, one camera's
\* disconnect having raised on the way.
C20_Witness ==
    /\ method = "none"
    /\ calls = << << "connect", "ok" >>, << "disconnect", "ok" >> >>
    /\ ~is_connected
    /\ disconnect_errors = {1}
    /\ \A c \in Cameras : connect_calls[c] = 1 /\ disconnect_calls[c] = 1


\* ------------------------------------------------------------------ C21
\* C21: frames are handled one at a time and in order.  The only frame or
\* payload the loop holds is the one of the current iteration; a capture is
\* requested only when nothing is held and every publish so far was of an
\* earlier frame and has returned; each publish sends the payload of the
\* current iteration's frame; and the payloads published so far are in the
\* order their frames were captured, none twice.
C21_OneFrameAtATimeInOrder ==
    /\ []( /\ \A i, j \in DOMAIN published :
                i < j => published[i] < published[j]
           /\ \A i \in DOMAIN published : published[i] \in captured
           /\ captured \subseteq 1..iter
           /\ (pc \in LoopPcs
                 => \A held \in {frame, resized_frame, buffer} :
                       held = 0 \/ held = iter)
           /\ (pc = "capture"
                 => /\ frame = 0 /\ resized_frame = 0 /\ buffer = 0
                    /\ \A i \in DOMAIN published : published[i] < iter) )
    /\ [][ /\ (captured' # captured
                 => /\ pc = "capture" /\ pc' = "resize"
                    /\ iter \notin captured
                    /\ captured' = captured \cup {iter})
           /\ (published' # published
                 => /\ pc = "publish"
                    /\ pc' \in {"pace", "reconnect_check"}
                    /\ buffer = iter /\ frame = iter
                    /\ published' = Append(published, iter)) ]_vars

\* C21 witness: three frames captured, the second dropped by the encoder,
\* the first and the third published in that order.
C21_Witness ==
    /\ pc = "pace"
    /\ captured = {1, 2, 3}
    /\ published = << 1, 3 >>
    /\ buffer = 3


\* ------------------------------------------------------------------ C22
\* The number of times operation op was attempted by the finally block.
Attempts(op) == Cardinality({ i \in DOMAIN ops : ops[i] = op })

\* C22: the finally block drains exactly when the transport reports
\* connected at the moment it is asked, and attempts the close exactly once
\* whenever a transport handle exists (never without one).  After a failed
\* reconnect with the transport still reporting disconnected, the transport
\* is closed without a drain and the frame source is released.
C22_DrainOnlyIfConnectedCloseOnce ==
    /\ []( /\ (pc = "drain" => drain_seen_connected)
           /\ (pc = "close_quiet" => ~drain_seen_connected)
           /\ Attempts("drain") <= 1 /\ Attempts("close") <= 1
           /\ (pc \in DonePcs
                 => /\ Attempts("drain")
                         = (IF drain_seen_connected THEN 1 ELSE 0)
                    /\ Attempts("close") = (IF nc = "None" THEN 0 ELSE 1)
                    /\ (nc = "None" => ~drain_seen_connected)
                    /\ ((exit_reason = "reconnect_failed"
                           /\ ~drain_seen_connected)
                          => /\ ops = << "close", "release" >>
                             /\ cap = "released")) )
    /\ [][ /\ ((pc = "finally_nc" /\ pc' # pc)
                 => /\ (pc' = "drain" <=> nc = "connected")
                    /\ (pc' = "close_quiet" <=> nc \notin {"None", "connected"})
                    /\ (pc' = "finally_cap" <=> nc = "None")
                    /\ drain_seen_connected' = (nc = "connected"))
           /\ ((Attempts("drain")' # Attempts("drain"))
                 => pc = "drain" /\ pc' = "close")
           /\ ((Attempts("close")' # Attempts("close"))
                 => pc \in {"close", "close_quiet"} /\ pc' = "finally_cap")
         ]_vars

\* C22 witness: the reconnect failed, the transport still reported
\* disconnected in the finally block, and async_main returned after one
\* close, no drain, and the release of the frame source.
C22_Witness ==
    /\ pc = "returned"
    /\ exit_reason = "reconnect_failed"
    /\ ~drain_seen_connected
    /\ Attempts("drain") = 0 /\ Attempts("close") = 1
    /\ ops = << "close", "release" >>
    /\ cap = "released"


\* ------------------------------------------------------------------ C23
\* C23: when the connection-closed handler finds the transport reporting
\* connected, it makes no reconnect attempt and the iteration goes on to its
\* pacing step; an attempt is started only by that handler finding the
\* transport not connected, one attempt per such finding, so the attempts
\* never outnumber the connection-closed publish failures.
C23_ReconnectOnlyIfDisconnected ==
    /\ [](reconnects <= closed_errors /\ iter_reconnects <= 1)
    /\ [][ /\ ((pc = "reconnect_check" /\ pc' # pc)
                 => /\ (nc = "connected"
                          => /\ pc' = "pace"
                             /\ UNCHANGED << reconnects, reconnect_fails,
                                             nc, exit_reason >>)
                    /\ (nc # "connected" => pc' = "reconnect"))
           /\ ((pc # "reconnect" /\ pc' = "reconnect")
                 => pc = "reconnect_check" /\ nc # "connected")
           /\ (reconnects' # reconnects
                 => /\ pc = "reconnect"
                    /\ reconnects' = reconnects + 1
                    /\ reconnects < closed_errors) ]_vars

\* C23 witness: the first publish failed with connection-closed, the
\* transport reported connected when asked, no reconnect was attempted and
\* the loop went on to capture the second frame.
C23_Witness ==
    /\ pc = "resize"
    /\ iter = 2
    /\ frame = 2
    /\ closed_errors = 1
    /\ reconnects = 0
    /\ published = << 1 >>


\* ------------------------------------------------------------------ C24
\* The outcome of the call that finished last, "" when none has.
LastCall == IF calls = << >> THEN << "", "" >> ELSE calls[Len(calls)]

====
